---- MODULE Spec2Model ----
(***************************************************************************)
(* The chat client of voice-agent: the Session Controller (Home, in        *)
(* src/components/ui/Chat.tsx) that owns the session identifier, the       *)
(* reconnecting socket and the message sequence, and the Conversation      *)
(* View (ChatBox) that sends through it, plays the audio of its messages   *)
(* and switches to voice mode.                                             *)
(*                                                                         *)
(* Spec follows the Session Controller: it never reads the state of the    *)
(* view, which Spec leaves as the first render made it.  SpecView follows  *)
(* the view on top of a controller that mounts and receives answers.       *)
(*                                                                         *)
(* JavaScript strings are sequences of tokens, so that concatenation is    *)
(* \o and a prefix test reads the first token.  An absent optional value   *)
(* (undefined) is the sentinel  undefined ; an absent session is  null .   *)
(* A Message always carries its five fields: an absent  audio  is          *)
(* undefined  and an absent  loading  is FALSE (the code only ever reads   *)
(* the truthiness of  loading ).                                           *)
(*                                                                         *)
(* Every handler runs to completion before the next one starts (one UI     *)
(* thread), so each is one action; the updater functions it queues with    *)
(* setMessages are applied in order within that action.  Updates queued    *)
(* after the effect cleanup are applied like any other.  onerror only      *)
(* logs and is left out.  A handler of the view reads the state of the     *)
(* latest render, and the render that follows it, with the auto-play       *)
(* effect, is part of its action.  A rejected audio.play() only logs.      *)
(***************************************************************************)
EXTENDS Integers, Sequences, FiniteSets, TLC

VARIABLES
    messages,           \* useState<Message[]>            Chat.tsx:19
    sessionId,          \* useState<string | null>        Chat.tsx:20
    loadingSession,     \* useState(true)                 Chat.tsx:21
    storage,            \* localStorage['chat_session']   Chat.tsx:237,245
    sockets,            \* readyState of the WebSocket in each slot
    wsRef,              \* wsRef.current: a slot of sockets, 0 for null
    reconnectAttempts,  \* reconnectAttempts.current      Chat.tsx:24
    timers,             \* pending setTimeout reconnect callbacks
    sent,               \* envelopes handed to WebSocket.send, in order
    pc,                 \* position of the async initSession
    mounted,            \* FALSE once the effect cleanup has run
    last,               \* the handler (and branch) that ran last
    exchange,           \* the question/answer exchange under way, if any
    voiceMode,          \* useState(false)               part_000:40
    livekitToken,       \* useState('')                  part_000:39
    connectionError,    \* useState<string | null>       part_000:42
    tokenFetches,       \* /livekit/token requests still pending
    audios,             \* the Audio elements: url and playback state
    currentAudio,       \* useState<HTMLAudioElement>    part_000:44
    isPlaying,          \* useState<string | null>       part_000:45
    lastPlayedAudioRef, \* lastPlayedAudioRef.current    part_000:49
    input               \* useState('')                  part_000:43

\* The state of the Conversation View.
viewvars == <<voiceMode, livekitToken, connectionError, tokenFetches,
              audios, currentAudio, isPlaying, lastPlayedAudioRef, input>>

\* The state of the Session Controller that the view never writes.
homevars == <<messages, sessionId, loadingSession, storage, sockets, wsRef,
              reconnectAttempts, timers, sent, pc, mounted>>

vars == <<messages, sessionId, loadingSession, storage, sockets, wsRef,
          reconnectAttempts, timers, sent, pc, mounted, last, exchange,
          viewvars>>

---------------------------------------------------------------------------
(* Bounds of the model *)

MaxMsgs == 2        \* longest message sequence explored
MaxTextLen == 2     \* most fragments streamed into one placeholder
SocketSlots == 2    \* sockets that may exist side by side
MaxAudios == 2      \* Audio elements that may exist side by side
MaxFetches == 2     \* /livekit/token requests pending at once

(* Program constants *)

maxReconnectAttempts == 5

API_BASE == "http://127.0.0.1:8000"

---------------------------------------------------------------------------
(* Values *)

undefined == <<"<undefined>">>
WhiteSpace == {" "}
null == "<null>"

\* JS truthiness of an optional string: neither undefined nor "".
Truthy(s) == s # undefined /\ s # <<>>

\* What the server may put in the fields of an envelope.
Fragments == {<<"a">>, <<"b">>}
Answers == {undefined, <<>>, <<"c">>}
AudioUrls == {undefined, <<"/audio/1.mp3">>, <<"http", "://cdn/2.mp3">>}
ErrorTexts == {<<"boom">>}

\* What the user may type and the view forwards.
UserTexts == {<<"hi">>, <<"yo">>}

\* Session identifiers: the one a browser profile may already hold and the
\* one the backend hands out.
StoredSessions == {null, "s1"}
NewSessions == {null, "s1"}

\* /history/{id} answers: a body without a history field, or with a list
\* of exchanges.
HistoryLists ==
    { <<[question |-> <<"q0">>, answer |-> <<>>],
        [question |-> <<>>, answer |-> <<"a0">>]>> }
HistoryBodies ==
    {[present |-> FALSE, history |-> <<>>]}
        \cup {[present |-> TRUE, history |-> h] : h \in HistoryLists}

\* What arrives on the socket: text that is no JSON, the JSON null, or an
\* object with some of the fields the handler reads.
Payload(json, event, error, text, answer, audio_url, message) ==
    [json |-> json, event |-> event, error |-> error, text |-> text,
     answer |-> answer, audio_url |-> audio_url, message |-> message]
Envelope(event, text, answer, audio_url, message) ==
    Payload("object", event, undefined, text, answer, audio_url, message)
Payloads ==
    {Payload(j, "", undefined, undefined, undefined, undefined, undefined) :
        j \in {"invalid", "null"}}
    \cup {Payload("object", ev, e, undefined, undefined, undefined, undefined) :
        ev \in {"", "done"}, e \in ErrorTexts}
    \cup {Envelope(ev, undefined, undefined, undefined, undefined) :
        ev \in {"processing", "ping"}}
    \cup {Envelope("partial_text", t, undefined, undefined, undefined) :
        t \in Fragments}
    \cup {Envelope("done", undefined, a, u, undefined) :
        a \in Answers, u \in AudioUrls}
    \cup {Envelope("audio_ready", undefined, undefined, u, undefined) :
        u \in AudioUrls}
    \cup {Envelope("audio_error", undefined, undefined, undefined, m) :
        m \in ErrorTexts}

\* An object payload without an error field whose event is ev.
IsEvent(p, ev) == p.json = "object" /\ p.error = undefined /\ p.event = ev

---------------------------------------------------------------------------
(* Messages *)

Msg(sender, text, audio, loading, source) ==
    [sender |-> sender, text |-> text, audio |-> audio,
     loading |-> loading, source |-> source]

UserMsg(text) == Msg("You", text, undefined, FALSE, "user")
BotMsg(text, audio, loading) == Msg("Bot", text, audio, loading, "websocket")

NoAnswerText == <<"I couldn't generate an answer.">>
SendFailedText == <<"Connection lost. Please try again.">>
TerminalText == <<"WebSocket connection lost. Please refresh the page.">>

\* lastMessage?.loading && lastMessage?.source === 'websocket'
TrailingLoading(prev) ==
    /\ Len(prev) > 0
    /\ prev[Len(prev)].loading
    /\ prev[Len(prev)].source = "websocket"

\* data.audio_url?.startsWith('http') ? data.audio_url
\*   : data.audio_url ? `${API_BASE}${data.audio_url}` : undefined
resolveAudioUrl(audio_url) ==
    IF audio_url # undefined /\ Len(audio_url) > 0 /\ audio_url[1] = "http"
    THEN audio_url
    ELSE IF Truthy(audio_url) THEN <<API_BASE>> \o audio_url ELSE undefined

---------------------------------------------------------------------------
(* The updater functions handed to setMessages by the socket handlers *)

\* An error handler that overwrites the last message whatever it is.
reduceErrorAnyLast(prev, error) ==
    IF Len(prev) > 0
    THEN [prev EXCEPT ![Len(prev)] =
            BotMsg(<<"Error: ">> \o error, undefined, FALSE)]
    ELSE prev

\* data.error: the trailing placeholder becomes an error message.
reduceError(prev, error) ==
    IF TrailingLoading(prev)
    THEN [prev EXCEPT ![Len(prev)] =
            BotMsg(<<"Error: ">> \o error, undefined, FALSE)]
    ELSE prev

\* A partial_text handler that starts a new placeholder every time.
reducePartialTextAlwaysAppend(prev, text) ==
    Append(prev, BotMsg(text, undefined, TRUE))

\* partial_text: stream into the trailing placeholder, or create one.
reducePartialText(prev, text) ==
    IF TrailingLoading(prev)
    THEN [prev EXCEPT ![Len(prev)] =
            [@ EXCEPT !.text = @ \o text, !.loading = TRUE]]
    ELSE Append(prev, BotMsg(text, undefined, TRUE))

\* A done handler that trusts data.answer to be there.
doneTextNoFallback(answer) == answer

\* data.answer || "I couldn't generate an answer."
doneText(answer) == IF Truthy(answer) THEN answer ELSE NoAnswerText

\* done: finalize the trailing placeholder, or append the final message.
reduceDone(prev, answer, audioUrl) ==
    IF TrailingLoading(prev)
    THEN [prev EXCEPT ![Len(prev)] = BotMsg(doneText(answer), audioUrl, FALSE)]
    ELSE Append(prev, BotMsg(doneText(answer), audioUrl, FALSE))

\* The test of the audio_ready scan.
AudioTarget(m) == m.sender = "Bot" /\ ~m.loading /\ m.source = "websocket"

\* A scan that takes the last message without testing it.
audioReadyIndexLast(prev) == Len(prev)

\* A scan that runs from the front and stops at the first match.
audioReadyIndexFirst(prev) ==
    LET hits == {i \in 1..Len(prev) : AudioTarget(prev[i])}
    IN  IF hits = {} THEN 0 ELSE CHOOSE i \in hits : \A j \in hits : i <= j

\* for (i = length - 1; i >= 0; i--) if (...) { ...; break }
\* The index the scan stops at, 0 when it runs off the front.
audioReadyIndex(prev) ==
    LET hits == {i \in 1..Len(prev) : AudioTarget(prev[i])}
    IN  IF hits = {} THEN 0 ELSE CHOOSE i \in hits : \A j \in hits : j <= i

\* audio_ready: updated[i] = { ...updated[i], audio: audioUrl }
reduceAudioReady(prev, audioUrl) ==
    LET i == audioReadyIndex(prev)
    IN  IF i = 0 THEN prev ELSE [prev EXCEPT ![i].audio = audioUrl]

\* An audio_error handler that adds its message after the placeholder.
reduceAudioErrorAppend(prev, message) ==
    Append(prev,
           BotMsg(<<"Error generating audio: ">> \o message, undefined, FALSE))

\* audio_error: the trailing placeholder becomes an error message.
reduceAudioError(prev, message) ==
    IF TrailingLoading(prev)
    THEN [prev EXCEPT ![Len(prev)] =
            BotMsg(<<"Error generating audio: ">> \o message, undefined, FALSE)]
    ELSE prev

\* The branch of onmessage a payload takes, in the order the code tests.
branch(p) ==
    IF p.json = "invalid" THEN "parse_error"
    ELSE IF p.json = "null" THEN "type_error"
    ELSE IF Truthy(p.error) THEN "error"
    ELSE IF p.event \in {"processing", "partial_text", "done",
                         "audio_ready", "audio_error"} THEN p.event
    ELSE "unhandled"

\* A dispatch whose last test is missing: what is no other event is done.
onmessageMessagesDefaultDone(prev, p) ==
    LET b == branch(p)
    IN  CASE b = "error" -> reduceError(prev, p.error)
          [] b = "partial_text" -> reducePartialText(prev, p.text)
          [] b \in {"done", "unhandled"} ->
                reduceDone(prev, p.answer, resolveAudioUrl(p.audio_url))
          [] b = "audio_ready" ->
                reduceAudioReady(prev, resolveAudioUrl(p.audio_url))
          [] b = "audio_error" -> reduceAudioError(prev, p.message)
          [] OTHER -> prev

\* The message sequence after onmessage has handled p.
onmessageMessages(prev, p) ==
    LET b == branch(p)
    IN  CASE b = "error" -> reduceError(prev, p.error)
          [] b = "partial_text" -> reducePartialText(prev, p.text)
          [] b = "done" ->
                reduceDone(prev, p.answer, resolveAudioUrl(p.audio_url))
          [] b = "audio_ready" ->
                reduceAudioReady(prev, resolveAudioUrl(p.audio_url))
          [] b = "audio_error" -> reduceAudioError(prev, p.message)
          [] OTHER -> prev

---------------------------------------------------------------------------
(* Sockets *)

\* A slot holds no socket ("none") or a socket in one of the four
\* readyStates.  A closed socket fires no further event: once wsRef.current
\* is reassigned nothing refers to it, and its slot is free again.
Slots == 1..SocketSlots
Live == {"connecting", "open"}
Collected(socks) ==
    [i \in Slots |-> IF socks[i] = "closed" THEN "none" ELSE socks[i]]

---------------------------------------------------------------------------
(* Audio elements *)

\* isPlaying and lastPlayedAudioRef hold a URL or null; connectionError
\* holds a text or null.
NoUrl == <<"<null>">>
NoError == <<"<null>">>

\* An element is "none" (not created, or unreachable and stopped),
\* "playing", "paused", or "ended": playback has reached the end and the
\* ended event is queued but its callback has not run yet.
AudioIds == 1..MaxAudios
NoAudio == [url |-> NoUrl, state |-> "none"]

---------------------------------------------------------------------------
(* The exchange under way *)

\* exchange  is history kept for the properties, no state of the program:
\* from a sendMessage on the open socket, through the partial_text events
\* that follow it without any other operation in between, to the done event
\* that ends them, it records the message sequence S the send found, the
\* text t sent, whether a fragment was streamed and the answer a of the
\* done event.  Any other operation ends the record.
NoExchange ==
    [phase |-> "none", S |-> <<>>, t |-> <<>>, streamed |-> FALSE,
     a |-> undefined]

onmessageExchange(ex, p) ==
    IF ex.phase \notin {"sent", "streaming"} THEN NoExchange
    ELSE IF branch(p) = "partial_text"
         THEN [ex EXCEPT !.phase = "streaming", !.streamed = TRUE]
    ELSE IF branch(p) = "done"
         THEN [ex EXCEPT !.phase = "done", !.a = p.answer]
    ELSE NoExchange

---------------------------------------------------------------------------
(* Initial state: the first render, before the mount effect has run *)

Init ==
    /\ messages = <<>>
    /\ sessionId = null
    /\ loadingSession = TRUE
    /\ storage \in StoredSessions
    /\ sockets = [i \in Slots |-> "none"]
    /\ wsRef = 0
    /\ reconnectAttempts = 0
    /\ timers = 0
    /\ sent = <<>>
    /\ pc = "mount"
    /\ mounted = TRUE
    /\ last = "render"
    /\ exchange = NoExchange
    /\ voiceMode = FALSE
    /\ livekitToken = ""
    /\ connectionError = NoError
    /\ tokenFetches = 0
    /\ audios = [a \in AudioIds |-> NoAudio]
    /\ currentAudio = 0
    /\ isPlaying = NoUrl
    /\ lastPlayedAudioRef = NoUrl
    /\ input = <<>>

---------------------------------------------------------------------------
(* The socket *)

\* wsRef.current = new WebSocket(...), with its four handlers attached.
\* The new socket takes the lowest slot that holds no socket.
connectWebSocket ==
    LET kept == Collected(sockets)
        free == {i \in Slots : kept[i] = "none"}
        new == CHOOSE i \in free : \A j \in free : i <= j
    IN  /\ free # {}
        /\ sockets' = [kept EXCEPT ![new] = "connecting"]
        /\ wsRef' = new

\* An onopen that leaves the reconnect counter where it stands.
onopenKeepsCounter(i) ==
    /\ sockets[i] = "connecting"
    /\ sockets' = [sockets EXCEPT ![i] = "open"]
    /\ last' = "open"
    /\ exchange' = NoExchange
    /\ UNCHANGED viewvars
    /\ UNCHANGED <<messages, sessionId, loadingSession, storage, wsRef,
                   reconnectAttempts, timers, sent, pc, mounted>>

\* onopen of socket i.
onopen(i) ==
    /\ sockets[i] = "connecting"
    /\ sockets' = [sockets EXCEPT ![i] = "open"]
    /\ reconnectAttempts' = 0
    /\ last' = "open"
    /\ exchange' = NoExchange
    /\ UNCHANGED viewvars
    /\ UNCHANGED <<messages, sessionId, loadingSession, storage, wsRef,
                   timers, sent, pc, mounted>>

\* onmessage of socket i with payload p: a message event is only delivered
\* to a socket in the OPEN state.
onmessageHome(i, p) ==
    /\ sockets[i] = "open"
    /\ branch(p) = "partial_text" =>
            IF TrailingLoading(messages)
            THEN Len(messages[Len(messages)].text) + Len(p.text) <= MaxTextLen
            ELSE Len(messages) < MaxMsgs
    /\ branch(p) = "done" =>
            (TrailingLoading(messages) \/ Len(messages) < MaxMsgs)
    /\ messages' = onmessageMessages(messages, p)
    /\ last' = branch(p)
    /\ exchange' = onmessageExchange(exchange, p)
    /\ UNCHANGED <<sessionId, loadingSession, storage, sockets, wsRef,
                   reconnectAttempts, timers, sent, pc, mounted>>

\* onmessage as the Session Controller sees it.
onmessage(i, p) == onmessageHome(i, p) /\ UNCHANGED viewvars

\* The message sequence after onclose has run with the given counter.
oncloseMessages(prev, attempts) ==
    IF attempts < maxReconnectAttempts
    THEN prev
    ELSE Append(prev, BotMsg(TerminalText, undefined, FALSE))

\* A closure that schedules a reconnect whatever the counter says.
oncloseTimersAlways(pending, attempts) == pending + 1

\* A closure that schedules the reconnect twice.
oncloseTimersTwice(pending, attempts) ==
    IF attempts < maxReconnectAttempts THEN pending + 2 ELSE pending

\* A closure whose test lets the counter reach the ceiling once more.
oncloseTimersInclusive(pending, attempts) ==
    IF attempts <= maxReconnectAttempts THEN pending + 1 ELSE pending

\* The reconnect timers pending after onclose has run.
oncloseTimers(pending, attempts) ==
    IF attempts < maxReconnectAttempts THEN pending + 1 ELSE pending

\* onclose of socket i: the connection failed, the peer closed it, or a
\* close() call has completed.
onclose(i) ==
    /\ sockets[i] \in {"connecting", "open", "closing"}
    /\ reconnectAttempts >= maxReconnectAttempts => Len(messages) < MaxMsgs
    /\ sockets' = [sockets EXCEPT ![i] = "closed"]
    /\ timers' = oncloseTimers(timers, reconnectAttempts)
    /\ messages' = oncloseMessages(messages, reconnectAttempts)
    /\ last' = IF reconnectAttempts < maxReconnectAttempts
               THEN "close_retry" ELSE "close_giveup"
    /\ exchange' = NoExchange
    /\ UNCHANGED viewvars
    /\ UNCHANGED <<sessionId, loadingSession, storage, wsRef,
                   reconnectAttempts, sent, pc, mounted>>

\* The setTimeout callback of onclose: count the attempt and reconnect.
reconnect ==
    /\ timers > 0
    /\ timers' = timers - 1
    /\ reconnectAttempts' = reconnectAttempts + 1
    /\ connectWebSocket
    /\ last' = "reconnect"
    /\ exchange' = NoExchange
    /\ UNCHANGED viewvars
    /\ UNCHANGED <<messages, sessionId, loadingSession, storage, sent, pc,
                   mounted>>

---------------------------------------------------------------------------
(* The mount effect *)

\* history.forEach: a user message per question, a bot message per answer.
RECURSIVE pastMessages(_)
pastMessages(history) ==
    IF history = <<>> THEN <<>>
    ELSE LET h == Head(history)
         IN  (IF Truthy(h.question) THEN <<UserMsg(h.question)>> ELSE <<>>)
             \o (IF Truthy(h.answer)
                 THEN <<BotMsg(h.answer, undefined, FALSE)>> ELSE <<>>)
             \o pastMessages(Tail(history))

\* A mount that opens the socket before it awaits anything.
initSessionConnectsFirst ==
    /\ pc = "mount"
    /\ IF storage = null
       THEN pc' = "start-session" /\ UNCHANGED sessionId
       ELSE pc' = "history" /\ sessionId' = storage
    /\ connectWebSocket
    /\ last' = "initSession"
    /\ exchange' = NoExchange
    /\ UNCHANGED viewvars
    /\ UNCHANGED <<messages, loadingSession, storage,
                   reconnectAttempts, timers, sent, mounted>>

\* initSession up to its first await: read the stored session; ask the
\* backend for one when there is none, else go on to the history.
initSession ==
    /\ pc = "mount"
    /\ IF storage = null
       THEN pc' = "start-session" /\ UNCHANGED sessionId
       ELSE pc' = "history" /\ sessionId' = storage
    /\ last' = "initSession"
    /\ exchange' = NoExchange
    /\ UNCHANGED viewvars
    /\ UNCHANGED <<messages, loadingSession, storage, sockets, wsRef,
                   reconnectAttempts, timers, sent, mounted>>

\* /start-session has answered with session_id = session.
startSessionOk(session) ==
    /\ pc = "start-session"
    /\ storage' = IF session # null THEN session ELSE storage
    /\ sessionId' = session
    /\ pc' = "history"
    /\ last' = "session"
    /\ exchange' = NoExchange
    /\ UNCHANGED viewvars
    /\ UNCHANGED <<messages, loadingSession, sockets, wsRef,
                   reconnectAttempts, timers, sent, mounted>>

\* /history/{session} has answered: seed the messages, open the socket.
historyOk(body) ==
    /\ pc = "history"
    /\ messages' = IF body.present THEN pastMessages(body.history)
                   ELSE messages
    /\ connectWebSocket
    /\ loadingSession' = FALSE
    /\ pc' = "done"
    /\ last' = "history"
    /\ exchange' = NoExchange
    /\ UNCHANGED viewvars
    /\ UNCHANGED <<sessionId, storage, reconnectAttempts, timers, sent,
                   mounted>>

\* Either fetch (or its json()) has thrown: catch logs, finally runs.
initSessionFailed ==
    /\ pc \in {"start-session", "history"}
    /\ loadingSession' = FALSE
    /\ pc' = "done"
    /\ last' = "init_failed"
    /\ exchange' = NoExchange
    /\ UNCHANGED viewvars
    /\ UNCHANGED <<messages, sessionId, storage, sockets, wsRef,
                   reconnectAttempts, timers, sent, mounted>>

\* The effect cleanup: wsRef.current?.close().
teardown ==
    /\ mounted
    /\ pc # "mount"
    /\ mounted' = FALSE
    /\ sockets' = IF wsRef # 0 /\ sockets[wsRef] \in Live
                  THEN [sockets EXCEPT ![wsRef] = "closing"]
                  ELSE sockets
    /\ last' = "teardown"
    /\ exchange' = NoExchange
    /\ UNCHANGED viewvars
    /\ UNCHANGED <<messages, sessionId, loadingSession, storage, wsRef,
                   reconnectAttempts, timers, sent, pc>>

---------------------------------------------------------------------------
(* Sending *)

\* A guard that forgets the session identifier.
NotConnectedSocketOnly ==
    wsRef = 0 \/ sockets[wsRef] # "open"

\* !sessionId || !wsRef.current || readyState !== WebSocket.OPEN
NotConnected ==
    sessionId = null \/ wsRef = 0 \/ sockets[wsRef] # "open"

\* The message sequence after sendMessage(text).
sendMessageMessages(prev, text, notConnected) ==
    IF notConnected
    THEN Append(prev, BotMsg(SendFailedText, undefined, FALSE))
    ELSE Append(Append(prev, UserMsg(text)), BotMsg(<<>>, undefined, TRUE))

\* A send that puts the session identifier in both fields.
sendMessageSentNoQuestion(out, text, notConnected) ==
    IF notConnected
    THEN out
    ELSE Append(out, [session_id |-> sessionId, question |-> <<sessionId>>])

\* The envelopes handed to the socket after sendMessage(text).
sendMessageSent(out, text, notConnected) ==
    IF notConnected
    THEN out
    ELSE Append(out, [session_id |-> sessionId, question |-> text])

\* A send that takes a failure for the loss of the session.
sendMessageForgetsSession(text) ==
    /\ messages' = sendMessageMessages(messages, text, NotConnected)
    /\ sent' = sendMessageSent(sent, text, NotConnected)
    /\ last' = IF NotConnected THEN "send_failed" ELSE "send"
    /\ exchange' = NoExchange
    /\ sessionId' = IF NotConnected THEN null ELSE sessionId
    /\ UNCHANGED <<loadingSession, storage, sockets, wsRef,
                   reconnectAttempts, timers, pc, mounted>>

sendMessage(text) ==
    /\ messages' = sendMessageMessages(messages, text, NotConnected)
    /\ sent' = sendMessageSent(sent, text, NotConnected)
    /\ last' = IF NotConnected THEN "send_failed" ELSE "send"
    /\ exchange' = IF NotConnected THEN NoExchange
                    ELSE [phase |-> "sent", S |-> messages, t |-> text,
                          streamed |-> FALSE, a |-> undefined]
    /\ UNCHANGED <<sessionId, loadingSession, storage, sockets, wsRef,
                   reconnectAttempts, timers, pc, mounted>>

\* input.trim(): the text without its leading and trailing white space.
RECURSIVE trimStart(_)
trimStart(text) ==
    IF text # <<>> /\ Head(text) \in WhiteSpace THEN trimStart(Tail(text))
    ELSE text
RECURSIVE trimEnd(_)
trimEnd(text) ==
    IF text # <<>> /\ text[Len(text)] \in WhiteSpace
    THEN trimEnd(SubSeq(text, 1, Len(text) - 1))
    ELSE text
trim(text) == trimEnd(trimStart(text))

\* A handleSend that does not look at loadingSession.
handleSendReturnsWhileLoaded(inp) == trim(inp) = <<>> \/ voiceMode

\* A handleSend that tests the input as typed.
handleSendReturnsUntrimmed(inp) ==
    inp = <<>> \/ loadingSession \/ voiceMode

\* if (!input.trim() || loadingSession || voiceMode) return;
handleSendReturns(inp) ==
    trim(inp) = <<>> \/ loadingSession \/ voiceMode

\* ChatBox.handleSend while the input box holds inp: nothing happens when
\* the input is blank, the session is loading or voice mode is on;
\* otherwise the input goes to onSend as typed and the box is cleared.
\* The messages it leaves give the auto-play effect nothing to play.
handleSend(inp) ==
    /\ mounted
    /\ IF handleSendReturns(inp)
       THEN /\ last' = "send_returns"
            /\ exchange' = NoExchange
            /\ UNCHANGED <<homevars, viewvars>>
       ELSE /\ Len(messages) + (IF NotConnected THEN 1 ELSE 2) <= MaxMsgs
            /\ sendMessage(inp)
            /\ input' = <<>>
            /\ UNCHANGED <<voiceMode, livekitToken, connectionError,
                           tokenFetches, audios, currentAudio, isPlaying,
                           lastPlayedAudioRef>>

\* What the input box may come to hold: typed by the user (onChange) or
\* dictated (the transcript effect).
Inputs == {<<>>, <<" ">>, <<"hi">>, <<" ", "yo">>}

\* setInput(value): the box takes no typing in voice mode, and the
\* transcript effect leaves it alone there.
setInput(value) ==
    /\ mounted
    /\ ~voiceMode
    /\ input # value
    /\ input' = value
    /\ last' = "input"
    /\ exchange' = NoExchange
    /\ UNCHANGED <<voiceMode, livekitToken, connectionError, tokenFetches,
                   audios, currentAudio, isPlaying, lastPlayedAudioRef>>
    /\ UNCHANGED homevars

---------------------------------------------------------------------------
(* The Conversation View: audio playback *)

\* What toggleAudio reads and writes: the elements, and the two pieces of
\* state that track the one it started last.
Playback == [audios |-> audios, currentAudio |-> currentAudio,
             isPlaying |-> isPlaying]

\* An element that was paused is referred to by nothing any more.
Reclaimed(els) ==
    [a \in AudioIds |-> IF els[a].state = "paused" THEN NoAudio ELSE els[a]]

\* currentAudio.pause(); setIsPlaying(null); setCurrentAudio(null)
pauseCurrent(pb) ==
    IF pb.currentAudio = 0 THEN pb
    ELSE [audios |-> [pb.audios EXCEPT ![pb.currentAudio].state =
                          IF @ = "playing" THEN "paused" ELSE @],
          currentAudio |-> 0,
          isPlaying |-> NoUrl]

\* The slot a new Audio(url) takes once the tracked element is paused.
newAudioSlot(pb) ==
    LET els == pauseCurrent(pb).audios
        free == {a \in AudioIds : els[a].state = "none"}
    IN  IF free = {} THEN 0 ELSE CHOOSE a \in free : \A b \in free : a <= b

\* toggleAudio(url): stop the tracked element; unless url is the one that
\* was playing, create an element for url, track it and play it.
toggleAudio(pb, url) ==
    IF pb.currentAudio # 0 /\ pb.isPlaying = url THEN pauseCurrent(pb)
    ELSE LET stopped == pauseCurrent(pb)
             new == newAudioSlot(pb)
         IN  [audios |-> [stopped.audios EXCEPT
                              ![new] = [url |-> url, state |-> "playing"]],
              currentAudio |-> new,
              isPlaying |-> url]

\* toggleAudio(url) finds room for the element it may create.
toggleAudioFits(pb, url) ==
    (pb.currentAudio # 0 /\ pb.isPlaying = url) \/ newAudioSlot(pb) # 0

\* The test of the auto-play effect on the last message.
AutoPlays(msgs, vm, played) ==
    /\ ~vm
    /\ Len(msgs) > 0
    /\ Truthy(msgs[Len(msgs)].audio)
    /\ ~msgs[Len(msgs)].loading
    /\ msgs[Len(msgs)].source = "websocket"
    /\ played # msgs[Len(msgs)].audio

\* The auto-play effect after a render with messages msgs, voice mode vm
\* and playback pb: the reference of the last audio played, and the
\* playback, as the effect leaves them.
autoPlay(msgs, vm, played, pb) ==
    IF AutoPlays(msgs, vm, played)
    THEN [played |-> msgs[Len(msgs)].audio,
          pb |-> toggleAudio(pb, msgs[Len(msgs)].audio)]
    ELSE [played |-> played, pb |-> pb]

autoPlayFits(msgs, vm, played, pb) ==
    AutoPlays(msgs, vm, played) => toggleAudioFits(pb, msgs[Len(msgs)].audio)

\* The render that follows a handler, with its effect: the handler left
\* the messages msgs, the voice mode vm and the playback pb.
rendered(msgs, vm, pb) ==
    LET r == autoPlay(msgs, vm, lastPlayedAudioRef, pb)
    IN  /\ autoPlayFits(msgs, vm, lastPlayedAudioRef, pb)
        /\ lastPlayedAudioRef' = r.played
        /\ audios' = r.pb.audios
        /\ currentAudio' = r.pb.currentAudio
        /\ isPlaying' = r.pb.isPlaying

\* The payloads that give a message an audio reference or take it away:
\* an answer with or without audio, and audio_ready.
AudioPayloads ==
    {p \in Payloads :
        \/ IsEvent(p, "done") /\ Truthy(p.answer)
        \/ IsEvent(p, "audio_ready")}

\* onmessage as the view sees it: the new messages are rendered and the
\* auto-play effect runs.
receive(i, p) ==
    /\ onmessageHome(i, p)
    /\ rendered(onmessageMessages(messages, p), voiceMode,
                [Playback EXCEPT !.audios = Reclaimed(audios)])
    /\ UNCHANGED <<voiceMode, livekitToken, connectionError, tokenFetches,
                   input>>

\* The urls whose play button is on screen.
AudioButtons ==
    IF loadingSession \/ voiceMode THEN {}
    ELSE {messages[k].audio : k \in
            {j \in 1..Len(messages) :
                /\ Truthy(messages[j].audio)
                /\ ~messages[j].loading
                /\ messages[j].source = "websocket"}}

\* A click on the play button of a message: toggleAudio(msg.audio).
clickAudio(url) ==
    /\ mounted
    /\ url \in AudioButtons
    /\ toggleAudioFits([Playback EXCEPT !.audios = Reclaimed(audios)], url)
    /\ rendered(messages, voiceMode,
                toggleAudio([Playback EXCEPT !.audios = Reclaimed(audios)],
                            url))
    /\ last' = "toggleAudio"
    /\ exchange' = NoExchange
    /\ UNCHANGED <<voiceMode, livekitToken, connectionError, tokenFetches>>
    /\ UNCHANGED <<homevars, input>>

\* Playback of element a reaches the end: the browser queues its ended
\* event.
playbackEnds(a) ==
    /\ audios[a].state = "playing"
    /\ audios' = [audios EXCEPT ![a].state = "ended"]
    /\ last' = "playback_ends"
    /\ exchange' = NoExchange
    /\ UNCHANGED <<voiceMode, livekitToken, connectionError, tokenFetches,
                   currentAudio, isPlaying, lastPlayedAudioRef>>
    /\ UNCHANGED <<homevars, input>>

\* audio.onended of element a: setIsPlaying(null); setCurrentAudio(null).
onended(a) ==
    /\ audios[a].state = "ended"
    /\ rendered(messages, voiceMode,
                [audios |-> [Reclaimed(audios) EXCEPT ![a] = NoAudio],
                 currentAudio |-> 0,
                 isPlaying |-> NoUrl])
    /\ last' = "ended"
    /\ exchange' = NoExchange
    /\ UNCHANGED <<voiceMode, livekitToken, connectionError, tokenFetches>>
    /\ UNCHANGED <<homevars, input>>

---------------------------------------------------------------------------
(* The Conversation View: voice mode *)

\* What /livekit/token may answer in data.token.
Tokens == {"", "tok"}

NoTokenText == <<"Failed to fetch LiveKit token: No token in response.">>
FetchFailedText == <<"Failed to connect to voice assistant: ", "err">>

\* toggleVoiceMode: leave voice mode, or start the fetch of a token.
toggleVoiceMode ==
    /\ mounted
    /\ IF voiceMode
       THEN /\ livekitToken' = ""
            /\ voiceMode' = FALSE
            /\ rendered(messages, FALSE,
                        pauseCurrent([Playback EXCEPT
                                         !.audios = Reclaimed(audios)]))
            /\ UNCHANGED tokenFetches
       ELSE /\ tokenFetches < MaxFetches
            /\ tokenFetches' = tokenFetches + 1
            /\ UNCHANGED <<voiceMode, livekitToken, audios, currentAudio,
                           isPlaying, lastPlayedAudioRef>>
    /\ last' = IF voiceMode THEN "voice_off" ELSE "token_fetch"
    /\ exchange' = NoExchange
    /\ UNCHANGED connectionError
    /\ UNCHANGED <<homevars, input>>

\* The state fetchLivekitToken leaves when the response carries token.
tokenVoiceMode(vm, token) == IF token # "" THEN TRUE ELSE vm
tokenLivekitToken(held, token) == IF token # "" THEN token ELSE held
tokenConnectionError(err, token) == IF token # "" THEN err ELSE NoTokenText

\* fetchLivekitToken after its awaits: the response was ok.
tokenFetchOk(token) ==
    /\ tokenFetches > 0
    /\ tokenFetches' = tokenFetches - 1
    /\ livekitToken' = tokenLivekitToken(livekitToken, token)
    /\ voiceMode' = tokenVoiceMode(voiceMode, token)
    /\ connectionError' = tokenConnectionError(connectionError, token)
    /\ rendered(messages, tokenVoiceMode(voiceMode, token),
                [Playback EXCEPT !.audios = Reclaimed(audios)])
    /\ last' = IF token # "" THEN "token" ELSE "no_token"
    /\ exchange' = NoExchange
    /\ UNCHANGED <<homevars, input>>

\* fetchLivekitToken: the fetch threw or the response was not ok.
tokenFetchFailed ==
    /\ tokenFetches > 0
    /\ tokenFetches' = tokenFetches - 1
    /\ connectionError' = FetchFailedText
    /\ last' = "token_failed"
    /\ exchange' = NoExchange
    /\ UNCHANGED <<voiceMode, livekitToken, audios, currentAudio, isPlaying,
                   lastPlayedAudioRef>>
    /\ UNCHANGED <<homevars, input>>

---------------------------------------------------------------------------

\* The Session Controller under a view in text mode. Typing a text and
\* sending it is one step here, handleSend(text); the input box itself is
\* followed keystroke by keystroke in SpecEntry.
Next ==
    \/ initSession
    \/ \E session \in NewSessions : startSessionOk(session)
    \/ \E body \in HistoryBodies : historyOk(body)
    \/ initSessionFailed
    \/ teardown
    \/ \E i \in Slots : onopen(i)
    \/ \E i \in Slots, p \in Payloads : onmessage(i, p)
    \/ \E i \in Slots : onclose(i)
    \/ reconnect
    \/ \E text \in UserTexts : handleSend(text)

Spec == Init /\ [][Next]_vars

\* The Conversation View on top of a Session Controller whose connection
\* holds: the mount, the socket events, and the handlers of the view.
NextView ==
    \/ initSession
    \/ \E session \in NewSessions : startSessionOk(session)
    \/ \E body \in HistoryBodies : historyOk(body)
    \/ \E i \in Slots : onopen(i)
    \/ \E i \in Slots, p \in AudioPayloads : receive(i, p)
    \/ \E url \in AudioUrls : clickAudio(resolveAudioUrl(url))
    \/ \E a \in AudioIds : playbackEnds(a)
    \/ \E a \in AudioIds : onended(a)
    \/ toggleVoiceMode
    \/ \E token \in Tokens : tokenFetchOk(token)
    \/ tokenFetchFailed

SpecView == Init /\ [][NextView]_vars

\* The entry controls of the Conversation View: the input box and
\* handleSend, under every state of loadingSession, voiceMode and the
\* connection that the mount, the socket and the voice toggle produce.
NextEntry ==
    \/ initSession
    \/ \E session \in NewSessions : startSessionOk(session)
    \/ \E body \in HistoryBodies : historyOk(body)
    \/ initSessionFailed
    \/ \E i \in Slots : onopen(i)
    \/ \E i \in Slots : onclose(i)
    \/ reconnect
    \/ toggleVoiceMode
    \/ \E token \in Tokens : tokenFetchOk(token)
    \/ tokenFetchFailed
    \/ \E value \in Inputs : setInput(value)
    \/ handleSend(input)

SpecEntry == Init /\ [][NextEntry]_vars

---------------------------------------------------------------------------
(* Vocabulary of the properties *)

\* This step is onmessage handling payload p on some socket.
Handled(p) == last' = branch(p) /\ \E i \in Slots : onmessage(i, p)

\* This step is handleSend forwarding text to sendMessage.
Sends(text) == last' \in {"send", "send_failed"} /\ handleSend(text)

\* This step is onclose on some socket.
Closes == last' \in {"close_retry", "close_giveup"} /\ \E i \in Slots : onclose(i)

\* The payloads that are events of one kind.
PartialTextEvents == {p \in Payloads : IsEvent(p, "partial_text")}
DoneEvents == {p \in Payloads : IsEvent(p, "done")}
AudioReadyEvents == {p \in Payloads : IsEvent(p, "audio_ready")}

\* A socket-origin message still marked in progress.
IsPlaceholder(m) == m.loading /\ m.source = "websocket"

\* A socket-origin bot message no longer in progress.
IsFinalized(m) == m.sender = "Bot" /\ ~m.loading /\ m.source = "websocket"

LastOf(seq) == seq[Len(seq)]

---------------------------------------------------------------------------
(* C1 *)

\* C1 as stated: when a done event finalizes the trailing placeholder, the
\* final text is the done event's answer if it supplies one, and otherwise
\* the text streamed so far (the concatenation of the partial fragments).
C1_FinalTextIsStreamedOrAnswer ==
    [][\A p \in DoneEvents :
        (Len(messages) > 0 /\ IsPlaceholder(LastOf(messages)) /\ Handled(p))
        => LastOf(messages').text =
              IF p.answer # undefined THEN p.answer
              ELSE LastOf(messages).text]_vars

\* C1 amended: every partial_text event appends its fragment to the text of
\* the trailing placeholder (or starts a placeholder holding the fragment),
\* so the placeholder holds the fragments in arrival order; a done event
\* leaves as last message a finalized bot message whose text is the done
\* event's answer when that is a non-empty string, and the fixed text
\* "I couldn't generate an answer." otherwise: the streamed text is dropped.
C1_FinalTextIsAnswerOrFallback ==
    [][/\ \A p \in PartialTextEvents : Handled(p) =>
              IF Len(messages) > 0 /\ IsPlaceholder(LastOf(messages))
              THEN /\ Len(messages') = Len(messages)
                   /\ LastOf(messages').text = LastOf(messages).text \o p.text
                   /\ IsPlaceholder(LastOf(messages'))
              ELSE /\ Len(messages') = Len(messages) + 1
                   /\ LastOf(messages').text = p.text
                   /\ IsPlaceholder(LastOf(messages'))
       /\ \A p \in DoneEvents : Handled(p) =>
              /\ Len(messages') =
                    IF Len(messages) > 0 /\ IsPlaceholder(LastOf(messages))
                    THEN Len(messages) ELSE Len(messages) + 1
              /\ IsFinalized(LastOf(messages'))
              /\ LastOf(messages').text =
                    IF p.answer \in {undefined, <<>>} THEN NoAnswerText
                    ELSE p.answer]_vars

\* A done event without an answer has just finalized a placeholder that
\* followed a user message.
C1_Witness ==
    /\ last = "done"
    /\ Len(messages) = 2
    /\ messages[1].sender = "You"
    /\ messages[2] = BotMsg(NoAnswerText, undefined, FALSE)

---------------------------------------------------------------------------
(* C2 *)

\* C2: sendMessage(text) with no session identifier, no socket or a socket
\* that is not open appends exactly one bot error message, no user message
\* and no placeholder, transmits nothing and leaves the session alone.
C2_SendWhileNotOpenOnlyReportsError ==
    [][\A text \in UserTexts :
        (Sends(text)
            /\ (sessionId = null \/ wsRef = 0 \/ sockets[wsRef] # "open"))
        => /\ messages' =
                Append(messages, BotMsg(SendFailedText, undefined, FALSE))
           /\ sent' = sent
           /\ sessionId' = sessionId
           /\ storage' = storage]_vars

\* A send has just failed on a socket that was closed under a session.
C2_Witness ==
    /\ last = "send_failed"
    /\ sessionId # null
    /\ wsRef # 0
    /\ sockets[wsRef] = "closed"
    /\ LastOf(messages) = BotMsg(SendFailedText, undefined, FALSE)
    /\ sent = <<>>

---------------------------------------------------------------------------
(* C3 *)

\* C3: sendMessage(text) with a session identifier and an open socket
\* appends the user message carrying text and then an empty loading
\* socket-origin placeholder, and transmits exactly one envelope
\* {session_id, question} with the current session and text.
C3_SendWhileOpenAppendsAndTransmits ==
    [][\A text \in UserTexts :
        (Sends(text)
            /\ sessionId # null /\ wsRef # 0 /\ sockets[wsRef] = "open")
        => /\ messages' =
                messages \o <<UserMsg(text), BotMsg(<<>>, undefined, TRUE)>>
           /\ sent' =
                Append(sent, [session_id |-> sessionId, question |-> text])]_vars

\* "yo" has just been sent on the open socket of session s1.
C3_Witness ==
    /\ last = "send"
    /\ messages = <<UserMsg(<<"yo">>), BotMsg(<<>>, undefined, TRUE)>>
    /\ sent = <<[session_id |-> "s1", question |-> <<"yo">>]>>
    /\ sockets[wsRef] = "open"

---------------------------------------------------------------------------
(* C4 *)

\* C4 as stated: the message sequence holds at most one loading
\* socket-origin message, and when it holds one it is the last element.
C4_AtMostOneTrailingLoading ==
    \A i \in 1..Len(messages) :
        IsPlaceholder(messages[i]) => i = Len(messages)

---------------------------------------------------------------------------
(* C5 *)

\* Element i of the sequence is carried over unchanged by this step.
Kept(i) == messages'[i] = messages[i]

\* Element i is the trailing placeholder before this step.
TrailingPlaceholder(i) ==
    i = Len(messages) /\ IsPlaceholder(messages[i])

\* C5 as stated: once the history is seeded the sequence never shrinks and
\* a step changes no element other than a trailing loading placeholder.
C5_AppendOnlyButTrailingPlaceholder ==
    [][pc = "done" =>
        /\ Len(messages') >= Len(messages)
        /\ \A i \in 1..Len(messages) :
                Kept(i) \/ TrailingPlaceholder(i)]_vars

\* C5 amended: once the history is seeded the sequence never shrinks, and a
\* step changes an element only by replacing the trailing loading
\* placeholder or, on an audio_ready event, by setting the audio reference
\* of one finalized socket-origin bot message.
C5_AppendOnlyButPlaceholderAndAudio ==
    [][pc = "done" =>
        /\ Len(messages') >= Len(messages)
        /\ \A i \in 1..Len(messages) :
                \/ Kept(i)
                \/ TrailingPlaceholder(i)
                \/ /\ IsFinalized(messages[i])
                   /\ messages'[i] =
                          [messages[i] EXCEPT !.audio = messages'[i].audio]
                   /\ \A j \in 1..Len(messages) : j # i => Kept(j)
                   /\ \E p \in AudioReadyEvents : Handled(p)]_vars

\* An audio_ready event has just given an audio reference to a finalized
\* message that is not the last element.
C5_Witness ==
    /\ last = "audio_ready"
    /\ pc = "done"
    /\ Len(messages) = 2
    /\ IsFinalized(messages[1])
    /\ messages[1].audio # undefined
    /\ IsPlaceholder(messages[2])

---------------------------------------------------------------------------
(* C6 *)

\* The reconnect ceiling has been exceeded: the counter stands at the
\* ceiling of 5 and the socket of the last attempt is closed.
Exhausted ==
    /\ reconnectAttempts >= 5
    /\ wsRef # 0
    /\ \A i \in Slots : sockets[i] \in {"none", "closed"}

\* How many messages of a sequence carry the terminal text.
Terminals(seq) ==
    Cardinality({i \in 1..Len(seq) : seq[i].text = TerminalText})

\* C6: the closure that finds the counter at the ceiling appends exactly
\* one terminal message and schedules no reconnect; from then on the
\* ceiling stays exceeded, no reconnect is pending, no socket is created
\* and no further terminal message is appended, so exactly one is there.
C6_TerminalMessageOnceThenQuiet ==
    [][/\ (reconnectAttempts >= 5 /\ Closes) =>
            /\ messages' =
                  Append(messages, BotMsg(TerminalText, undefined, FALSE))
            /\ timers' = timers
       /\ Exhausted =>
            /\ Exhausted'
            /\ sockets' = sockets
            /\ wsRef' = wsRef
            /\ Terminals(messages') = Terminals(messages)
       /\ Exhausted' =>
            /\ timers' = 0
            /\ Terminals(messages') = 1]_vars

\* After the ceiling was exceeded the user tried to send: the terminal
\* message is followed by the send error and nothing reconnects.
C6_Witness ==
    /\ Exhausted
    /\ last = "send_failed"
    /\ Len(messages) = 2
    /\ messages[1] = BotMsg(TerminalText, undefined, FALSE)
    /\ messages[2] = BotMsg(SendFailedText, undefined, FALSE)

---------------------------------------------------------------------------
(* C7 *)

\* C7 as stated: an audio_ready event received while the sequence holds no
\* loading bot message leaves the sequence unchanged.
C7_NoOpWithoutUnfinishedMessage ==
    [][\A p \in AudioReadyEvents :
        ((\A i \in 1..Len(messages) :
              ~(messages[i].sender = "Bot" /\ messages[i].loading))
            /\ Handled(p))
        => messages' = messages]_vars

\* C7 amended: an audio_ready event received while the sequence holds no
\* finalized (non-loading) socket-origin bot message leaves the sequence
\* unchanged.
C7_NoOpWithoutFinalizedMessage ==
    [][\A p \in AudioReadyEvents :
        ((\A i \in 1..Len(messages) : ~IsFinalized(messages[i]))
            /\ Handled(p))
        => messages' = messages]_vars

\* An audio_ready event has just been handled while the sequence held a
\* user message and a loading placeholder only.
C7_Witness ==
    /\ last = "audio_ready"
    /\ Len(messages) = 2
    /\ messages[1].sender = "You"
    /\ IsPlaceholder(messages[2])

---------------------------------------------------------------------------
(* C8 *)

\* C8 as stated: an audio_ready event attaches its audio reference to the
\* most recent finalized socket-origin bot message that lacks one and
\* changes nothing else, so it overwrites no audio reference a message
\* already has.
C8_AttachesToMostRecentLackingAudio ==
    [][\A p \in AudioReadyEvents :
        Handled(p)
        => LET lacking == {i \in 1..Len(messages) :
                             /\ IsFinalized(messages[i])
                             /\ messages[i].audio = undefined}
           IN  IF lacking = {}
               THEN messages' = messages
               ELSE \E k \in lacking :
                      /\ \A j \in lacking : j <= k
                      /\ messages' =
                            [messages EXCEPT
                                ![k].audio = resolveAudioUrl(p.audio_url)]]_vars

\* C8 amended: an audio_ready event sets the audio reference of the most
\* recent finalized socket-origin bot message to the event's resolved
\* audio URL (none when the event carries no URL), whether or not that
\* message already has one, and changes no other message and no other
\* field.
C8_SetsAudioOfMostRecentFinalized ==
    [][\A p \in AudioReadyEvents : \A k \in 1..Len(messages) :
        (IsFinalized(messages[k])
            /\ (\A j \in (k + 1)..Len(messages) : ~IsFinalized(messages[j]))
            /\ Handled(p))
        => messages' =
              [messages EXCEPT ![k].audio = resolveAudioUrl(p.audio_url)]]_vars

\* An audio_ready event has just replaced the audio reference of the later
\* of two finalized messages, the earlier one still having none.
C8_Witness ==
    /\ last = "audio_ready"
    /\ Len(messages) = 2
    /\ IsFinalized(messages[1])
    /\ messages[1].audio = undefined
    /\ messages[2].text = NoAnswerText
    /\ messages[2].audio = <<"http", "://cdn/2.mp3">>

---------------------------------------------------------------------------
(* C9 *)

\* The events onmessage knows.
KnownEvents ==
    {"processing", "partial_text", "done", "audio_ready", "audio_error"}

\* The payloads C9 is about.
DroppedPayloads ==
    {p \in Payloads :
        \/ p.json = "invalid"
        \/ IsEvent(p, "processing")
        \/ (p.json = "object" /\ p.error = undefined
               /\ p.event \notin KnownEvents)}

\* C9: a payload that is no JSON, an object payload (without error field)
\* whose event is not one the handler knows, and a processing event each
\* leave the messages, the session identifier and the reconnect counter
\* unchanged.
C9_DroppedPayloadsChangeNothing ==
    [][\A p \in DroppedPayloads :
        Handled(p)
        => /\ messages' = messages
           /\ sessionId' = sessionId
           /\ storage' = storage
           /\ reconnectAttempts' = reconnectAttempts]_vars

\* An event with an unknown discriminant has just been dropped while a
\* placeholder was waiting for its answer.
C9_Witness ==
    /\ last = "unhandled"
    /\ Len(messages) = 2
    /\ IsPlaceholder(messages[2])
    /\ sent # <<>>

---------------------------------------------------------------------------
(* C10 *)

\* This step is one of the failures C10 lists.
FailureStep ==
    \/ \E text \in UserTexts :
          Sends(text)
            /\ (sessionId = null \/ wsRef = 0 \/ sockets[wsRef] # "open")
    \/ \E p \in Payloads :
          /\ p.json = "object"
          /\ Truthy(p.error) \/ IsEvent(p, "audio_error")
          /\ Handled(p)
    \/ reconnectAttempts >= 5 /\ Closes
    \/ initSessionFailed

\* C10 as stated: every failure leaves a new or replaced finalized bot
\* message in the message sequence.
C10_EveryFailureIsReported ==
    [][FailureStep =>
        \E i \in 1..Len(messages') :
            /\ IsFinalized(messages'[i])
            /\ i > Len(messages) \/ messages'[i] # messages[i]]_vars

---------------------------------------------------------------------------
(* C11 *)

\* The payloads onmessage treats as an upstream error, with the text each
\* puts in the chat.
ErrorEvents ==
    {p \in Payloads :
        p.json = "object" /\ (Truthy(p.error) \/ IsEvent(p, "audio_error"))}
ErrorTextOf(p) ==
    IF Truthy(p.error) THEN <<"Error: ">> \o p.error
    ELSE <<"Error generating audio: ">> \o p.message

\* C11: an error or audio_error event received while the last message is
\* a loading socket-origin placeholder replaces that placeholder in place
\* by a non-loading bot message carrying the error text: the length and
\* all earlier messages are unchanged and no loading message is last.
C11_ErrorReplacesTrailingPlaceholder ==
    [][\A p \in ErrorEvents :
        (Len(messages) > 0 /\ IsPlaceholder(LastOf(messages)) /\ Handled(p))
        => /\ Len(messages') = Len(messages)
           /\ \A i \in 1..(Len(messages) - 1) : Kept(i)
           /\ IsFinalized(LastOf(messages'))
           /\ LastOf(messages').text = ErrorTextOf(p)
           /\ ~IsPlaceholder(LastOf(messages'))]_vars

\* An audio_error event has just turned the placeholder of a sent question
\* into an error message.
C11_Witness ==
    /\ last = "audio_error"
    /\ Len(messages) = 2
    /\ messages[1].sender = "You"
    /\ messages[2] =
          BotMsg(<<"Error generating audio: ", "boom">>, undefined, FALSE)

---------------------------------------------------------------------------
(* C12 *)

---------------------------------------------------------------------------
(* C13 *)

\* C13: once the mount has set the session identifier (or has ended
\* without one), no later step (a send that goes out or fails, a socket
\* event, a closure, a reconnect, the cleanup) changes the identifier or
\* the value kept in client storage.
C13_SessionNeverChangesAfterMount ==
    [][(sessionId # null \/ pc = "done")
        => (sessionId' = sessionId /\ storage' = storage)]_vars

\* The session s1 is still in place after a send failed, the socket
\* closed twice and the second reconnect ran.
C13_Witness ==
    /\ sessionId = "s1"
    /\ storage = "s1"
    /\ last = "reconnect"
    /\ reconnectAttempts = 2
    /\ Len(messages) = 1
    /\ LastOf(messages) = BotMsg(SendFailedText, undefined, FALSE)

---------------------------------------------------------------------------
(* C14 *)

\* No socket has been created yet.
NoSocketYet == wsRef = 0 /\ \A i \in Slots : sockets[i] = "none"

\* The order in which initSession passes its awaits.
MountOrder ==
    { <<"mount", "start-session">>, <<"mount", "history">>,
      <<"start-session", "history">>, <<"start-session", "done">>,
      <<"history", "done">> }

\* C14: the mount obtains the session identifier first (asking the backend
\* only when client storage holds none), then fetches the history and
\* seeds the messages, and only then creates the first socket: no socket
\* exists while initSession is still under way, and the step that creates
\* the first socket is the one that has the history answer in hand and
\* has seeded the messages from it.
C14_MountOrderSessionHistorySocket ==
    [][/\ pc' # pc => <<pc, pc'>> \in MountOrder
       /\ pc' = "start-session" => (storage = null /\ NoSocketYet')
       /\ pc' = "history" => (sessionId' \in {storage', null} /\ NoSocketYet')
       /\ pc # "done" => NoSocketYet
       /\ (NoSocketYet /\ ~NoSocketYet') =>
             /\ pc = "history" /\ pc' = "done"
             /\ \E body \in HistoryBodies :
                   /\ historyOk(body)
                   /\ body.present => messages' = pastMessages(body.history)]_vars

\* The mount has just seeded two messages from the history of the stored
\* session and created the first socket.
C14_Witness ==
    /\ last = "history"
    /\ pc = "done"
    /\ sessionId = "s1"
    /\ Len(messages) = 2
    /\ wsRef = 1
    /\ sockets[1] = "connecting"

---------------------------------------------------------------------------
(* C15 *)

\* The slots that hold a live socket.
LiveSlots == {i \in Slots : sockets[i] \in Live}

\* This step creates a socket in slot i.
Creates(i) == sockets[i] \notin Live /\ sockets'[i] = "connecting"

\* C15: at most one socket is live (connecting or open) at any time and
\* the socket reference points at it; a socket is created only by the mount
\* (when the history has answered) or by the reconnect timer of a closed
\* socket, only while no socket is live, and the reference then points at
\* the new socket; the reference changes at no other step.
C15_SingleLiveSocket ==
    [][/\ Cardinality(LiveSlots) <= 1
       /\ \A i \in LiveSlots : wsRef = i
       /\ \A i \in Slots : Creates(i) =>
             /\ LiveSlots = {}
             /\ wsRef' = i
             /\ \/ pc = "history" /\ last' = "history"
                \/ timers > 0 /\ timers' = timers - 1 /\ last' = "reconnect"
       /\ wsRef' # wsRef => Creates(wsRef')
       /\ Cardinality({i \in Slots : sockets'[i] \in Live}) <= 1]_vars

\* The third reconnect has just replaced the closed socket by a new one.
C15_Witness ==
    /\ last = "reconnect"
    /\ reconnectAttempts = 3
    /\ wsRef # 0
    /\ sockets[wsRef] = "connecting"
    /\ timers = 0

---------------------------------------------------------------------------
(* C16 *)

\* This step is the successful open of some socket.
Opens == \E i \in Slots : sockets[i] = "connecting" /\ sockets'[i] = "open"

\* This step creates a socket from a reconnect timer.
Reconnects == timers' = timers - 1 /\ \E i \in Slots : Creates(i)

\* C16: the reconnect counter stays within 0..5; every socket created by
\* a reconnect timer raises it by exactly one and only a successful open
\* lowers it (to 0), so between two successful opens, or between the first
\* connection and the first successful open, at most 5 reconnect sockets
\* are created.
C16_ReconnectCounterWithinCeiling ==
    [][/\ reconnectAttempts \in 0..5
       /\ reconnectAttempts' \in 0..5
       /\ Reconnects => reconnectAttempts' = reconnectAttempts + 1
       /\ reconnectAttempts' > reconnectAttempts => Reconnects
       /\ reconnectAttempts' < reconnectAttempts =>
             (Opens /\ reconnectAttempts' = 0)]_vars

\* The fifth reconnect socket since the last open has just been created.
C16_Witness ==
    /\ last = "reconnect"
    /\ reconnectAttempts = 5
    /\ sockets[wsRef] = "connecting"
    /\ sent # <<>>

---------------------------------------------------------------------------
(* C17 *)

\* C17 as stated: the effect cleanup closes the current socket, and once
\* it has run no socket is live and no socket is created any more.
C17_TeardownEndsTheConnection ==
    [][/\ (mounted /\ ~mounted') => \A i \in Slots : sockets'[i] \notin Live
       /\ ~mounted =>
             /\ LiveSlots = {}
             /\ \A i \in Slots : ~Creates(i)]_vars

---------------------------------------------------------------------------
(* C18 *)

\* The payloads that end an answer: done, error and audio_error.
TerminalEvents == DoneEvents \cup ErrorEvents

\* C18 as stated: right after a done, error or audio_error event has been
\* handled the message sequence holds no loading socket-origin message,
\* whatever sends, closures and reconnects came before.
C18_NoPlaceholderAfterTerminalEvent ==
    [][\A p \in TerminalEvents :
        Handled(p)
        => \A i \in 1..Len(messages') : ~IsPlaceholder(messages'[i])]_vars

---------------------------------------------------------------------------
(* C19 *)

\* The elements that are playing.
PlayingNow == {a \in AudioIds : audios[a].state = "playing"}

\* C19 as stated: whatever the order of toggleAudio calls (clicks and the
\* auto-play effect), ended callbacks and voice-mode toggles, at most one
\* audio element is playing.
C19_AtMostOneAudioPlaying == Cardinality(PlayingNow) <= 1

---------------------------------------------------------------------------
(* C20 *)

---------------------------------------------------------------------------
(* C21 *)

\* C21: a successful open resets the reconnect counter to 0, so an open
\* socket always has the counter at 0 and its closure is retried with the
\* whole budget of 5 ahead; every closure that finds the counter below 5
\* schedules a reconnect and appends nothing; and the terminal message is
\* appended only by a closure that finds the counter at 5, that is after 5
\* reconnect sockets in a row since the last open, the closing one
\* included, none of which was open.
C21_OpenRestoresTheBudget ==
    [][/\ Opens => reconnectAttempts' = 0
       /\ \A i \in Slots : sockets[i] = "open" => reconnectAttempts = 0
       /\ \A i \in Slots : sockets'[i] = "open" => reconnectAttempts' = 0
       /\ (Closes /\ reconnectAttempts < 5) =>
             /\ timers' = timers + 1
             /\ messages' = messages
             /\ reconnectAttempts' = reconnectAttempts
       /\ Terminals(messages') > Terminals(messages) =>
             /\ Closes
             /\ reconnectAttempts = 5
             /\ \A i \in Slots : sockets[i] # "open"]_vars

\* A socket was open and streamed a fragment; five reconnect sockets in a
\* row then closed without opening and the terminal message was appended.
C21_Witness ==
    /\ last = "close_giveup"
    /\ reconnectAttempts = 5
    /\ Len(messages) = 2
    /\ IsPlaceholder(messages[1])
    /\ messages[2] = BotMsg(TerminalText, undefined, FALSE)

----------------------------------------------------------------------------
(* C22 *)

\* This step is initSession replacing the messages by the fetched history.
Seeds ==
    /\ last' = "history"
    /\ \E body \in HistoryBodies : body.present /\ historyOk(body)

\* This step is handleSend called while the session is loading.
SendsWhileLoading ==
    /\ loadingSession
    /\ last' \in {"send", "send_failed", "send_returns"}
    /\ \E text \in UserTexts : handleSend(text)

\* C22: history seeding never discards a message: the step that replaces
\* the messages by the fetched history finds them empty, because until
\* initSession has finished the session is loading and no socket exists,
\* and a handleSend called while the session is loading changes neither
\* the messages nor what went out on a socket.
C22_SeedingDiscardsNothing ==
    [][/\ Seeds => messages = <<>>
       /\ pc # "done" => loadingSession /\ NoSocketYet /\ messages = <<>>
       /\ SendsWhileLoading => messages' = messages /\ sent' = sent]_vars

\* The history of session s1 has just seeded the messages, a question and
\* an answer, and nothing has gone out on a socket.
C22_Witness ==
    /\ last = "history"
    /\ sessionId = "s1"
    /\ \E h \in HistoryLists : messages = pastMessages(h)
    /\ messages # <<>>
    /\ sent = <<>>
    /\ ~loadingSession

----------------------------------------------------------------------------
(* C23 *)

\* This step is handleSend called with what the input box holds.
HandlesSend ==
    /\ last' \in {"send", "send_failed", "send_returns"}
    /\ handleSend(input)

\* This step went through the controller's sendMessage.
Forwarded == last' \in {"send", "send_failed"}

\* C23: handleSend invokes sendMessage only when the input is not blank
\* after trimming, the session is not loading and voice mode is off, and
\* then with the input as typed, after which the input is cleared; in
\* every other case it leaves the input, the messages and what went out
\* on a socket unchanged.
C23_HandleSendForwardsOrDoesNothing ==
    [][HandlesSend =>
          /\ Forwarded <=>
                (trim(input) # <<>> /\ ~loadingSession /\ ~voiceMode)
          /\ Forwarded =>
                /\ input' = <<>>
                /\ messages' = sendMessageMessages(messages, input, NotConnected)
                /\ sent' = sendMessageSent(sent, input, NotConnected)
          /\ ~Forwarded =>
                /\ input' = input
                /\ messages' = messages
                /\ sent' = sent]_vars

\* The input " yo" has just been forwarded as typed on the open socket and
\* the input box is empty again.
C23_Witness ==
    /\ last = "send"
    /\ input = <<>>
    /\ ~voiceMode
    /\ sent = <<[session_id |-> "s1", question |-> <<" ", "yo">>]>>
    /\ messages = <<UserMsg(<<" ", "yo">>), BotMsg(<<>>, undefined, TRUE)>>

====
